---- MODULE Spec2Model ----
(***************************************************************************)
(* A model of sync2gm/service.py: the change log filled by the triggers,   *)
(* the cursor file written by atomic_write, the id mapping database, the   *)
(* poll loop ChangePollThread.run, and attach, detach, reattach and        *)
(* init_config, which instrument the watched database.                     *)
(*                                                                         *)
(* The code is Python 2.  Three facts of the language and of its sqlite3   *)
(* module shape the model:                                                 *)
(*  - run() calls the free names make_gmid_conn (line 439) and traceback   *)
(*    (line 451).  service.py defines neither; the only statements that    *)
(*    could bind them are the star import of gmusicapi (line 18) and the   *)
(*    import cycle with the mediaplayer config (line 112), both outside    *)
(*    this file.  Whether they resolve is therefore chosen in Init; when   *)
(*    they do not, the call raises NameError.  The same holds for          *)
(*    create_service_tables (line 153) and drop_service_tables (line 173). *)
(*  - sqlite3 opens a transaction before REPLACE/DELETE and close() does   *)
(*    not commit: a connection closed without commit() rolls back.         *)
(*  - an exception raised inside an except clause runs the finally clause  *)
(*    and then propagates.                                                 *)
(***************************************************************************)
EXTENDS Integers, Sequences, FiniteSets, TLC

\* ----------------------------------------------------------------- bounds
MaxChanges == 2        \* rows the triggers append in one behaviour
MaxDowns == 1          \* kills and stop() requests in one behaviour
MaxLocalId == 1        \* local ids are 1..MaxLocalId
MaxCalls == 2          \* calls of attach, detach, reattach and init_config

LocalIds == 1..MaxLocalId
GmIds == {"a", "b"}

\* ------------------------------------------------------ program constants
max_changes == 10                       \* service.py:412
item_to_table == [song |-> "GMSongIds", playlist |-> "GMPlaylistIds"]
ItemTypes == DOMAIN item_to_table

\* The handler vector of the mediaplayer config (self.handlers), ordered by
\* change type.  Each entry names what push_changes returns when the remote
\* call succeeds: a HandlerResult (action, item_type) or None.
handlers ==
  << [action |-> "create", item_type |-> "song"],
     [action |-> "delete", item_type |-> "song"],
     [action |-> "none",   item_type |-> "song"] >>

\* -------------------------------------------------------------- variables
VARIABLES
  sync2gm_Changes,    \* the change log: rows (changeId, changeType, localId)
  seq,                \* AUTOINCREMENT: the largest changeId ever assigned
  remote,             \* remote[i]: the gm id the service gives change i's item
  dbLocked,           \* another connection holds the watched db's lock
  file, tmp, bak,     \* last_change, last_change.tmp, last_change.bak
  idTables,           \* committed rows of GMSongIds / GMPlaylistIds
  pc,                 \* where the poll thread is
  running,            \* the _running event
  read_new_changeid, last_change_id, changes, change,   \* locals of run()
  raised,             \* an exception is propagating out of run()
  exists, renamed,    \* locals of backed_up / atomic_write
  gmidConnBound,      \* the global name make_gmid_conn resolves
  tracebackBound,     \* the global name traceback resolves
  downs,              \* kills and stop() requests so far
  killed,             \* the last kill: where, and the write it interrupted
  invoked,            \* change ids whose push_changes has been called
  applied,            \* ... and did not raise CallFailure
  runInvoked,         \* change ids whose push_changes was called in this run
  runWriteFailed,     \* some atomic_write of this run returned False
  cf,                 \* the row whose last push_changes raised CallFailure
  owing,              \* rows whose HandlerResult is not visible in the id map
  expected,           \* per key, what the last processed HandlerResult bound
  frontier,           \* the highest row fully dispatched, the id map it left
                      \* and whether it was dispatched once or again
  clean,              \* every dispatch so far returned and was recorded
  lastRead,           \* the largest cursor value run() has read
  stopRow,            \* the row in flight or just completed at stop()
  tableExists,        \* the watched db has the table sync2gm_Changes
  checkMax,           \* the upper bound in the table's CHECK constraint
  triggers,           \* change types whose trigger exists in the watched db
  createTablesBound,  \* the global name create_service_tables resolves
  dropTablesBound,    \* the global name drop_service_tables resolves
  call,               \* the last attach or detach call and its result
  calls,              \* calls of attach, detach, reattach, init_config so far
  issued              \* every changeId AUTOINCREMENT has ever assigned

fsVars == <<file, tmp, bak>>
schemaVars == <<tableExists, checkMax, triggers, createTablesBound,
                dropTablesBound, call, calls>>
dbVars == <<sync2gm_Changes, seq, remote, issued, schemaVars>>
runLocals == <<read_new_changeid, last_change_id, changes, change, raised>>
awLocals == <<exists, renamed>>
localVars == <<read_new_changeid, last_change_id, changes, change, raised,
               exists, renamed>>
envVars == <<gmidConnBound, tracebackBound>>
dispatchGhosts == <<cf, owing, expected, frontier, clean>>
ghostVars == <<invoked, applied, runInvoked, runWriteFailed, dispatchGhosts,
               lastRead, stopRow>>
vars == <<sync2gm_Changes, seq, remote, dbLocked, file, tmp, bak, idTables,
          pc, running, read_new_changeid, last_change_id, changes, change,
          raised, exists, renamed, gmidConnBound,
          tracebackBound, downs, killed, invoked, applied, runInvoked,
          runWriteFailed, cf, owing, expected, frontier, clean, lastRead,
          stopRow, tableExists, checkMax, triggers, createTablesBound,
          dropTablesBound, call, calls, issued>>

\* ------------------------------------------------------------ conversions
\* str(n) for a non-negative integer: its decimal digits.
RECURSIVE str(_)
str(n) == IF n < 10 THEN <<n>> ELSE Append(str(n \div 10), n % 10)

\* int(s): the value of a digit string.  int('') raises ValueError.
RECURSIVE int(_)
int(s) == IF Len(s) = 0 THEN 0
          ELSE 10 * int(SubSeq(s, 1, Len(s) - 1)) + s[Len(s)]

IsInt(s) == Len(s) > 0

\* ------------------------------------------------------------------ files
NoFile == [exists |-> FALSE, text |-> <<>>]
FileOf(s) == [exists |-> TRUE, text |-> s]

\* What open(self._change_file) / int(f.readline().strip()) yields.
Readable(f) == f.exists /\ IsInt(f.text)
CursorValue == int(file.text)

\* ----------------------------------------------------------- the id map
NoRow == [changeId |-> 0, changeType |-> 0, localId |-> 0]

\* _get_gm_id: the gmIds selected for localId in the item type's table; the
\* caller takes fetchone() and raises UnmappedId when there is none.
GmIdRows(tables, localId, item_type) ==
  {r.gmId : r \in {t \in tables : t.table = item_to_table[item_type]
                                   /\ t.localId = localId}}

Unmapped(tables, localId, item_type) == GmIdRows(tables, localId, item_type) = {}

\* The statement update_id_mapping executes, applied to the rows its
\* connection sees.
ExecuteMapping(tables, local_id, handler_res) ==
  LET tbl == item_to_table[handler_res.item_type]
      others == {t \in tables : ~(t.table = tbl /\ t.localId = local_id)}
  IN IF handler_res.action = "create"
       THEN others \cup {[table |-> tbl, localId |-> local_id,
                          gmId |-> handler_res.gm_id]}
       ELSE others

\* A variant of update_id_mapping that commits, and whose create is a plain
\* INSERT: it does not replace the key's earlier row.
update_id_mapping_Insert(tables, local_id, handler_res) ==
  IF handler_res.action = "create"
    THEN tables \cup {[table |-> item_to_table[handler_res.item_type],
                       localId |-> local_id, gmId |-> handler_res.gm_id]}
    ELSE ExecuteMapping(tables, local_id, handler_res)

\* update_id_mapping: the rows of the id database after the call.  The
\* statement runs in the transaction sqlite3 opened for it on a fresh
\* connection; closing(conn) closes it with no commit, which rolls back.
update_id_mapping(tables, local_id, handler_res) ==
  LET pending == ExecuteMapping(tables, local_id, handler_res)
      committed == tables
  IN committed

\* Does the id database show the effect of a HandlerResult for local_id?
Reflects(tables, local_id, handler_res) ==
  IF handler_res.action = "create"
    THEN GmIdRows(tables, local_id, handler_res.item_type) = {handler_res.gm_id}
    ELSE Unmapped(tables, local_id, handler_res.item_type)

\* What push_changes returns for a change row when the remote call succeeds.
HandlerRes(c) ==
  [action |-> handlers[c.changeType + 1].action,
   item_type |-> handlers[c.changeType + 1].item_type,
   gm_id |-> remote[c.changeId]]

\* ------------------------------------------- instrumenting the watched db
\* The action pairs of the mediaplayer config, one per handler; a trigger
\* is named here by its change type.
action_pairs ==
  [i \in DOMAIN handlers |-> [trigger |-> i - 1, handler |-> handlers[i]]]
AllTriggers == {action_pairs[i].trigger : i \in DOMAIN action_pairs}

\* A step of attach or detach at which sqlite3 raises an error of its own
\* (a locked database, a full disk): step 0 is the table, step i the i-th
\* trigger, and NoFault means no such error.
NoFault == Len(action_pairs) + 1
Faults == 0..NoFault

\* The watched database as far as the service is concerned.
Db == [table |-> tableExists, check |-> checkMax, triggers |-> triggers,
       rows |-> sync2gm_Changes, seq |-> seq]
Schema(db) == [table |-> db.table, triggers |-> db.triggers]
NoCall == [op |-> "none", success |-> FALSE, fault |-> FALSE, round |-> FALSE,
           before |-> [table |-> FALSE, triggers |-> {}]]

\* CHECK (changeType BETWEEN 0 AND {changes}): does the table accept the
\* value?  BETWEEN includes both ends.
create_service_table_Check(changeType, upper) ==
  0 <= changeType /\ changeType <= upper

\* CREATE TABLE sync2gm_Changes (... AUTOINCREMENT ...), committed.
create_service_table(db, num_triggers) ==
  [db EXCEPT !.table = TRUE, !.check = num_triggers, !.rows = <<>>, !.seq = 0]

\* DROP TABLE IF EXISTS sync2gm_Changes: the rows go, and with them the
\* table's entry in sqlite_sequence.
drop_service_table(db) ==
  [db EXCEPT !.table = FALSE, !.check = 0, !.rows = <<>>, !.seq = 0]

create_trigger(change_type, db) == [db EXCEPT !.triggers = @ \cup {change_type}]
drop_trigger(change_type, db) == [db EXCEPT !.triggers = @ \ {change_type}]

\* The for loop of attach from action pair i on.  CREATE TRIGGER raises
\* when a trigger of that name exists.
RECURSIVE AttachTriggers(_, _, _)
AttachTriggers(db, i, fault) ==
  IF i > Len(action_pairs) THEN [db |-> db, success |-> TRUE]
  ELSE IF action_pairs[i].trigger \in db.triggers \/ fault = i
    THEN [db |-> db, success |-> FALSE]
    ELSE AttachTriggers(create_trigger(action_pairs[i].trigger, db), i + 1, fault)

\* attach(conn, action_pairs).  It calls create_service_tables, a name
\* service.py does not define (it defines create_service_table): where the
\* name does not resolve the call raises NameError, which no except clause
\* takes and "finally: return success" swallows; where it resolves it is
\* taken to be create_service_table.  A sqlite3.Error is taken by the except
\* clause, whose detach(conn) lacks an argument and raises TypeError, again
\* swallowed by the return in finally: nothing is dropped.
attach(db, fault) ==
  IF ~createTablesBound THEN [db |-> db, success |-> FALSE]
  ELSE IF db.table \/ fault = 0 THEN [db |-> db, success |-> FALSE]
  ELSE AttachTriggers(create_service_table(db, Len(action_pairs)), 1, fault)

\* The for loop of detach from action pair i on (DROP TRIGGER IF EXISTS).
RECURSIVE DetachTriggers(_, _, _)
DetachTriggers(db, i, fault) ==
  IF i > Len(action_pairs) THEN [db |-> db, success |-> TRUE]
  ELSE IF fault = i THEN [db |-> db, success |-> FALSE]
  ELSE DetachTriggers(drop_trigger(action_pairs[i].trigger, db), i + 1, fault)

\* detach(conn, action_pairs).  It calls drop_service_tables, which
\* service.py does not define either (it defines drop_service_table).
detach(db, fault) ==
  IF ~dropTablesBound THEN [db |-> db, success |-> FALSE]
  ELSE IF fault = 0 THEN [db |-> db, success |-> FALSE]
  ELSE DetachTriggers(drop_service_table(db), 1, fault)

\* reattach: detach(conn, action_pairs) and attach(conn, action_pairs).
reattach(db, fault1, fault2) ==
  LET d == detach(db, fault1)
  IN IF d.success THEN attach(d.db, fault2) ELSE d

\* ------------------------------------------------------------------- Init
NoCf == [row |-> 0, file |-> NoFile]
NoKill == [in |-> "none", old |-> NoFile, new |-> 0]
AwPcs == {"aw_open", "aw_write", "aw_backup", "aw_rename", "aw_remove"}

Init ==
  /\ sync2gm_Changes = <<>>
  /\ seq = 0
  /\ remote = <<>>
  /\ dbLocked = FALSE
  /\ file = FileOf(str(0))
  /\ tmp = NoFile
  /\ bak = NoFile
  /\ idTables = {}
  /\ pc = "top"
  /\ running = TRUE
  /\ read_new_changeid = TRUE
  /\ last_change_id = 0
  /\ changes = <<>>
  /\ change = NoRow
  /\ raised = FALSE
  /\ exists = FALSE
  /\ renamed = FALSE
  /\ gmidConnBound \in BOOLEAN
  /\ tracebackBound \in BOOLEAN
  /\ downs = 0
  /\ killed = NoKill
  /\ invoked = {}
  /\ applied = {}
  /\ runInvoked = {}
  /\ runWriteFailed = FALSE
  /\ cf = NoCf
  /\ owing = {}
  /\ expected = [k \in ItemTypes |-> [l \in LocalIds |-> "never"]]
  /\ frontier = [id |-> 0, tables |-> {}, times |-> 0]
  /\ clean = TRUE
  /\ lastRead = 0
  /\ stopRow = 0
  /\ tableExists = TRUE
  /\ checkMax = Len(action_pairs)
  /\ triggers = AllTriggers
  /\ createTablesBound = TRUE
  /\ dropTablesBound = TRUE
  /\ call = NoCall
  /\ calls = 0
  /\ issued = {}

\* ------------------------------------------------------------ the triggers
\* A watched mutation commits: the trigger of action pair change_type
\* inserts (changeType, localId); AUTOINCREMENT assigns the changeId.
TriggerInsert ==
  /\ Len(sync2gm_Changes) < MaxChanges
  /\ tableExists
  /\ \E change_type \in 0..(Len(handlers) - 1), id_text \in LocalIds, g \in GmIds :
       /\ change_type \in triggers
       /\ create_service_table_Check(change_type, checkMax)
       /\ handlers[change_type + 1].action # "create" => g = "a"
       /\ sync2gm_Changes' = Append(sync2gm_Changes,
            [changeId |-> seq + 1, changeType |-> change_type, localId |-> id_text])
       /\ seq' = seq + 1
       /\ remote' = Append(remote, g)
       /\ issued' = issued \cup {seq + 1}
  /\ UNCHANGED <<schemaVars, dbLocked, fsVars, idTables, pc, running, localVars,
                 envVars, downs, killed, ghostVars>>

\* Another connection takes or releases the lock of the watched database.
\* Only the select of run() observes the lock, so it is let change only
\* while the select is being tried.
LockDb ==
  /\ pc = "select"
  /\ dbLocked' = ~dbLocked
  /\ UNCHANGED <<dbVars, fsVars, idTables, pc, running, localVars, envVars,
                 downs, killed, ghostVars>>

\* ------------------------------------------------------------ run()
\* fetchmany(max_changes) of the select: the first rows above the cursor.
Take(n, s) == SubSeq(s, 1, IF Len(s) < n THEN Len(s) ELSE n)
\* A variant of the select with changeId >= ? in place of changeId > ?.
SelectChanges_Inclusive(last) ==
  LET Test(r) == r.changeId >= last IN Take(max_changes, SelectSeq(sync2gm_Changes, Test))

SelectChanges(last) ==
  LET Test(r) == r.changeId > last IN Take(max_changes, SelectSeq(sync2gm_Changes, Test))

Max(a, b) == IF a < b THEN b ELSE a

\* while self.active: ... if read_new_changeid: read the cursor file.
Top ==
  /\ pc = "top"
  /\ IF ~running
       THEN pc' = "stopped" /\ UNCHANGED <<last_change_id, lastRead>>
       ELSE IF read_new_changeid
         THEN IF Readable(file)
                THEN /\ pc' = "select"
                     /\ last_change_id' = int(file.text)
                     /\ lastRead' = Max(lastRead, int(file.text))
                ELSE pc' = "crashed" /\ UNCHANGED <<last_change_id, lastRead>>
         ELSE pc' = "select" /\ UNCHANGED <<last_change_id, lastRead>>
  /\ UNCHANGED <<dbVars, dbLocked, fsVars, idTables, running, read_new_changeid,
                 changes, change, raised, awLocals, envVars, downs, killed,
                 invoked, applied, runInvoked, runWriteFailed, dispatchGhosts,
                 stopRow>>

\* The select raised "database is locked": print and retry.
SelectLocked ==
  /\ pc = "select"
  /\ dbLocked
  /\ UNCHANGED vars

\* The select raised another sqlite3.Error: it propagates out of run().
SelectError ==
  /\ pc = "select"
  /\ pc' = "crashed"
  /\ UNCHANGED <<dbVars, dbLocked, fsVars, idTables, running, localVars, envVars,
                 downs, killed, ghostVars>>

\* A variant of SelectOk that takes the select to have succeeded while
\* the database is locked.
SelectOk_IgnoresLock ==
  /\ pc = "select"
  /\ tableExists
  /\ LET got == SelectChanges(last_change_id)
     IN IF Len(got) = 0
          THEN /\ read_new_changeid' = FALSE
               /\ pc' = "sleep"
               /\ UNCHANGED changes
          ELSE /\ read_new_changeid' = TRUE
               /\ changes' = got
               /\ pc' = "for"
  /\ UNCHANGED <<dbVars, dbLocked, fsVars, idTables, running, last_change_id,
                 change, raised, awLocals, envVars, downs, killed, ghostVars>>

\* A variant of SelectOk that does not ask for the cursor to be read again
\* after a batch that had rows.
SelectOk_NoRefresh ==
  /\ pc = "select"
  /\ ~dbLocked
  /\ tableExists
  /\ LET got == SelectChanges(last_change_id)
     IN IF Len(got) = 0
          THEN /\ read_new_changeid' = FALSE
               /\ pc' = "sleep"
               /\ UNCHANGED changes
          ELSE /\ read_new_changeid' = FALSE
               /\ changes' = got
               /\ pc' = "for"
  /\ UNCHANGED <<dbVars, dbLocked, fsVars, idTables, running, last_change_id,
                 change, raised, awLocals, envVars, downs, killed, ghostVars>>

\* The select succeeded; changes = cur.fetchmany(max_changes).
SelectOk ==
  /\ pc = "select"
  /\ ~dbLocked
  /\ tableExists
  /\ LET got == SelectChanges(last_change_id)
     IN IF Len(got) = 0
          THEN /\ read_new_changeid' = FALSE
               /\ pc' = "sleep"
               /\ UNCHANGED changes
          ELSE /\ read_new_changeid' = TRUE
               /\ changes' = got
               /\ pc' = "for"
  /\ UNCHANGED <<dbVars, dbLocked, fsVars, idTables, running, last_change_id,
                 change, raised, awLocals, envVars, downs, killed, ghostVars>>

\* A variant of ForChange that deletes the rows of a batch from the change
\* log once the batch is done.
ForChange_DeletesHandled ==
  /\ pc = "for"
  /\ IF Len(changes) = 0
       THEN /\ pc' = "sleep" /\ change' = NoRow /\ UNCHANGED changes
            /\ LET Later(r) == r.changeId > change.changeId
               IN sync2gm_Changes' = SelectSeq(sync2gm_Changes, Later)
       ELSE /\ pc' = "push" /\ change' = Head(changes) /\ changes' = Tail(changes)
            /\ UNCHANGED sync2gm_Changes
  /\ UNCHANGED <<seq, remote, issued, schemaVars, dbLocked, fsVars, idTables,
                 running, read_new_changeid, last_change_id, raised, awLocals,
                 envVars, downs, killed, ghostVars>>

\* for change in changes: the next row, or the end of the batch.  (The
\* loop variable is dead after the loop; the model clears it.)
ForChange ==
  /\ pc = "for"
  /\ IF Len(changes) = 0
       THEN pc' = "sleep" /\ change' = NoRow /\ UNCHANGED changes
       ELSE pc' = "push" /\ change' = Head(changes) /\ changes' = Tail(changes)
  /\ UNCHANGED <<dbVars, dbLocked, fsVars, idTables, running, read_new_changeid,
                 last_change_id, raised, awLocals, envVars, downs, killed,
                 ghostVars>>

\* The except clauses of the try in run(): does the exception leave them?
\* CallFailure is printed.  Any other exception is printed with
\* traceback.format_exc(), which raises NameError when traceback is unbound.
ExceptClause(exc) == exc = "Exception" /\ ~tracebackBound

\* The handler is built from self.handlers[c_type]; its arguments include
\* make_gmid_conn(), so an unbound name or a change type beyond the vector
\* raises before push_changes is called.
HandlerBuilt(c) == gmidConnBound /\ c.changeType + 1 \in DOMAIN handlers

\* The highest row whose dispatch has completed, with the id map it left.
Advance(fr, c, tables) ==
  IF c > fr.id THEN [id |-> c, tables |-> tables, times |-> 1]
  ELSE IF c = fr.id THEN [fr EXCEPT !.times = 2]
  ELSE fr

\* handler = self.handlers[c_type](...) raised: the except Exception clause.
PushUnbuilt ==
  /\ pc = "push"
  /\ ~HandlerBuilt(change)
  /\ raised' = ExceptClause("Exception")
  /\ pc' = "aw_open"
  /\ clean' = FALSE
  /\ UNCHANGED <<dbVars, dbLocked, fsVars, idTables, running, read_new_changeid,
                 last_change_id, changes, change, awLocals, envVars, downs,
                 killed, invoked, applied, runInvoked, runWriteFailed, cf, owing,
                 expected, frontier, lastRead, stopRow>>

\* res = handler.push_changes(): it returns its result, or raises
\* CallFailure, or raises something else (UnmappedId, sqlite3.Error, ...).
PushOutcome(outcome) ==
  /\ pc = "push"
  /\ HandlerBuilt(change)
  /\ LET c == change.changeId
         res == HandlerRes(change)
         toRecord == outcome = "returns" /\ res.action # "none"
     IN /\ invoked' = invoked \cup {c}
        /\ runInvoked' = runInvoked \cup {c}
        /\ applied' = IF outcome = "CallFailure" THEN applied ELSE applied \cup {c}
        /\ raised' = ExceptClause(outcome)
        /\ pc' = IF toRecord THEN "update" ELSE "aw_open"
        /\ cf' = IF outcome = "CallFailure" THEN [row |-> c, file |-> file]
                 ELSE IF cf.row = c THEN NoCf ELSE cf
        /\ owing' = IF toRecord THEN owing \cup {c} ELSE owing
        /\ clean' = (clean /\ outcome = "returns")
        /\ frontier' = IF outcome = "returns" /\ ~toRecord
                         THEN Advance(frontier, c, idTables) ELSE frontier
  /\ UNCHANGED <<dbVars, dbLocked, fsVars, idTables, running, read_new_changeid,
                 last_change_id, changes, change, awLocals, envVars, downs,
                 killed, runWriteFailed, expected, lastRead, stopRow>>

PushChanges ==
  \/ PushUnbuilt
  \/ \E outcome \in {"returns", "CallFailure", "Exception"} : PushOutcome(outcome)

\* if res is not None: self.update_id_mapping(local_id, res); the execute
\* may raise sqlite3.Error, which the except Exception clause takes.
UpdateStep(ok) ==
  /\ pc = "update"
  /\ LET c == change.changeId
         res == HandlerRes(change)
     IN
       IF ok
         THEN /\ idTables' = update_id_mapping(idTables, change.localId, res)
              /\ raised' = FALSE
              /\ owing' = IF Reflects(idTables', change.localId, res)
                            THEN owing \ {c} ELSE owing
              /\ expected' = [expected EXCEPT ![res.item_type][change.localId] =
                                IF res.action = "create" THEN res.gm_id ELSE "unmapped"]
              /\ frontier' = Advance(frontier, c, idTables')
              /\ UNCHANGED clean
         ELSE /\ raised' = ExceptClause("Exception")
              /\ clean' = FALSE
              /\ UNCHANGED <<idTables, owing, expected, frontier>>
  /\ pc' = "aw_open"
  /\ UNCHANGED <<dbVars, dbLocked, fsVars, running, read_new_changeid,
                 last_change_id, changes, change, awLocals, envVars, downs,
                 killed, invoked, applied, runInvoked, runWriteFailed, cf,
                 lastRead, stopRow>>

UpdateIdMapping == \E ok \in BOOLEAN : UpdateStep(ok)

\* ------------------------------------------------------------ atomic_write
\* atomic_write returns ok to the finally clause of run(), which prints when
\* it is False; then the for loop goes on, unless an exception is leaving
\* the try statement.
AwReturn(ok) ==
  /\ runWriteFailed' = (runWriteFailed \/ ~ok)
  /\ pc' = IF raised THEN "crashed" ELSE "for"
  /\ exists' = FALSE
  /\ renamed' = FALSE

AwFrame ==
  UNCHANGED <<dbVars, dbLocked, idTables, running, runLocals, envVars, downs,
              killed, invoked, applied, runInvoked, dispatchGhosts, lastRead,
              stopRow>>

\* with open(tmp_name, 'w') as tmp: creates or truncates the .tmp file.
AwOpenStep(ok) ==
  /\ pc = "aw_open"
  /\   IF ok THEN /\ tmp' = FileOf(<<>>)
                  /\ pc' = "aw_write"
                  /\ UNCHANGED <<runWriteFailed, awLocals>>
             ELSE AwReturn(FALSE) /\ UNCHANGED tmp
  /\ UNCHANGED <<file, bak>>
  /\ AwFrame

AwOpen == \E ok \in BOOLEAN : AwOpenStep(ok)

\* tmp.write(str(text)) and the close of the with block.
AwWriteStep(ok) ==
  /\ pc = "aw_write"
  /\   IF ok THEN /\ tmp' = FileOf(str(change.changeId))
                  /\ pc' = "aw_backup"
                  /\ UNCHANGED <<runWriteFailed, awLocals>>
             ELSE AwReturn(FALSE) /\ UNCHANGED tmp
  /\ UNCHANGED <<file, bak>>
  /\ AwFrame

AwWrite == \E ok \in BOOLEAN : AwWriteStep(ok)

\* backed_up, before the yield: exists = isfile(filename);
\* if exists: os.rename(filename, bak_name).
AwBackupStep(ok) ==
  /\ pc = "aw_backup"
  /\ IF file.exists
       THEN   IF ok THEN /\ bak' = file
                         /\ file' = NoFile
                         /\ pc' = "aw_rename"
                         /\ exists' = TRUE
                         /\ UNCHANGED <<runWriteFailed, renamed>>
                    ELSE AwReturn(FALSE) /\ UNCHANGED <<file, bak>>
       ELSE /\ ok
            /\ pc' = "aw_rename"
            /\ exists' = FALSE
            /\ UNCHANGED <<file, bak, runWriteFailed, renamed>>
  /\ UNCHANGED tmp
  /\ AwFrame

AwBackup == \E ok \in BOOLEAN : AwBackupStep(ok)

\* The body of the with block: os.rename(tmp_name, filename).
AwRenameStep(ok) ==
  /\ pc = "aw_rename"
  /\   IF ok THEN file' = tmp /\ tmp' = NoFile /\ renamed' = TRUE
             ELSE renamed' = FALSE /\ UNCHANGED <<file, tmp>>
  /\ pc' = "aw_remove"
  /\ UNCHANGED <<bak, exists, runWriteFailed>>
  /\ AwFrame

AwRename == \E ok \in BOOLEAN : AwRenameStep(ok)

\* backed_up, the finally clause: if exists: os.remove(bak_name); then
\* atomic_write returns True, or False if any of its steps raised.
AwRemoveStep(ok) ==
  /\ pc = "aw_remove"
  /\ IF exists
       THEN   IF ok THEN bak' = NoFile /\ AwReturn(renamed)
                    ELSE UNCHANGED bak /\ AwReturn(FALSE)
       ELSE ok /\ UNCHANGED bak /\ AwReturn(renamed)
  /\ UNCHANGED <<file, tmp>>
  /\ AwFrame

AwRemove == \E ok \in BOOLEAN : AwRemoveStep(ok)

\* time.sleep(5)
Sleep ==
  /\ pc = "sleep"
  /\ pc' = "top"
  /\ UNCHANGED <<dbVars, dbLocked, fsVars, idTables, running, localVars, envVars,
                 downs, killed, ghostVars>>

\* ------------------------------------------------------- the process
Alive == pc \notin {"down", "stopped", "crashed"}

\* A row of the batch is being dispatched, or was and the loop has not
\* yet gone on.
InDispatch == pc \in {"push", "update"} \cup AwPcs \/ (pc = "for" /\ change # NoRow)

\* ChangePollThread.stop(), called by ServiceHandler.handle on 'shutdown'.
Stop ==
  /\ Alive
  /\ running
  /\ downs < MaxDowns
  /\ running' = FALSE
  /\ downs' = downs + 1
  /\ stopRow' = IF InDispatch THEN change.changeId ELSE 0
  /\ UNCHANGED <<dbVars, dbLocked, fsVars, idTables, pc, localVars, envVars,
                 killed, invoked, applied, runInvoked, runWriteFailed,
                 dispatchGhosts, lastRead>>

\* The cursor file as it was when the atomic_write in progress began.
OldFile == IF pc \in {"aw_rename", "aw_remove"} /\ exists THEN bak ELSE file

\* The process is killed: the thread's memory is lost, the files stay.
Kill ==
  /\ pc # "down"
  /\ downs < MaxDowns
  /\ downs' = downs + 1
  /\ killed' = IF pc \in AwPcs
                 THEN [in |-> pc, old |-> OldFile, new |-> change.changeId]
                 ELSE [in |-> pc, old |-> NoFile, new |-> 0]
  /\ pc' = "down"
  /\ running' = FALSE
  /\ read_new_changeid' = TRUE
  /\ last_change_id' = 0
  /\ changes' = <<>>
  /\ change' = NoRow
  /\ raised' = FALSE
  /\ exists' = FALSE
  /\ renamed' = FALSE
  /\ UNCHANGED <<dbVars, dbLocked, fsVars, idTables, envVars, ghostVars>>

\* start_service: ChangePollThread.__init__ (activate) and start().
Restart ==
  /\ ~Alive
  /\ pc' = "top"
  /\ running' = TRUE
  /\ read_new_changeid' = TRUE
  /\ last_change_id' = 0
  /\ changes' = <<>>
  /\ change' = NoRow
  /\ raised' = FALSE
  /\ exists' = FALSE
  /\ renamed' = FALSE
  /\ killed' = NoKill
  /\ runInvoked' = {}
  /\ runWriteFailed' = FALSE
  /\ stopRow' = 0
  /\ UNCHANGED <<dbVars, dbLocked, fsVars, idTables, envVars, downs, invoked,
                 applied, dispatchGhosts, lastRead>>

PollStep ==
  \/ Top \/ SelectLocked \/ SelectError \/ SelectOk \/ ForChange
  \/ PushChanges \/ UpdateIdMapping
  \/ AwOpen \/ AwWrite \/ AwBackup \/ AwRename \/ AwRemove \/ Sleep

Next ==
  \/ TriggerInsert \/ LockDb
  \/ Top \/ SelectLocked \/ SelectError \/ SelectOk \/ ForChange
  \/ PushChanges \/ UpdateIdMapping
  \/ AwOpen \/ AwWrite \/ AwBackup \/ AwRename \/ AwRemove \/ Sleep
  \/ Stop \/ Kill \/ Restart

Spec == Init /\ [][Next]_vars

\* ------------------------------------------- the operator's side of the db
\* The operator's calls are made while the service is not running.
SetDb(db) ==
  /\ tableExists' = db.table
  /\ checkMax' = db.check
  /\ triggers' = db.triggers
  /\ sync2gm_Changes' = db.rows
  /\ seq' = db.seq
  /\ remote' = IF db.rows = <<>> THEN <<>> ELSE remote

OperatorFrame ==
  UNCHANGED <<createTablesBound, dropTablesBound, issued, dbLocked, tmp, bak,
              pc, running, localVars, envVars, downs, killed, ghostVars>>

Attach ==
  /\ ~Alive
  /\ calls < MaxCalls
  /\ calls' = calls + 1
  /\ \E fault \in Faults :
       LET r == attach(Db, fault)
       IN /\ SetDb(r.db)
          /\ call' = [op |-> "attach", success |-> r.success,
                      fault |-> fault # NoFault, round |-> FALSE,
                      before |-> Schema(Db)]
  /\ UNCHANGED <<file, idTables>>
  /\ OperatorFrame

Detach ==
  /\ ~Alive
  /\ calls < MaxCalls
  /\ calls' = calls + 1
  /\ \E fault \in Faults :
       LET r == detach(Db, fault)
       IN /\ SetDb(r.db)
          /\ call' = [op |-> "detach", success |-> r.success,
                      fault |-> fault # NoFault, round |-> call.op = "attach",
                      before |-> IF call.op = "attach" THEN call.before
                                 ELSE Schema(Db)]
  /\ UNCHANGED <<file, idTables>>
  /\ OperatorFrame

Reattach ==
  /\ ~Alive
  /\ calls < MaxCalls
  /\ calls' = calls + 1
  /\ \E fault1 \in Faults, fault2 \in Faults :
       LET r == reattach(Db, fault1, fault2)
       IN /\ SetDb(r.db)
          /\ call' = [NoCall EXCEPT !.op = "reattach"]
  /\ UNCHANGED <<file, idTables>>
  /\ OperatorFrame

\* init_config, for a mediaplayer type and database that exist.  It
\* writes the config file, creates the cursor file with "0" unless it is
\* there, drops and recreates the id mapping tables, and reattaches,
\* ignoring the result; reached is the last of these steps it gets to
\* before an I/O error ends it.
InitConfig ==
  /\ ~Alive
  /\ calls < MaxCalls
  /\ calls' = calls + 1
  /\ \E reached \in 1..4, fault1 \in Faults, fault2 \in Faults :
       /\ reached < 4 => (fault1 = NoFault /\ fault2 = NoFault)
       /\ file' = IF reached >= 2 /\ ~file.exists THEN FileOf(str(0)) ELSE file
       /\ idTables' = IF reached >= 3 THEN {} ELSE idTables
       /\ IF reached = 4
            THEN LET r == reattach(Db, fault1, fault2)
                 IN /\ SetDb(r.db)
                    /\ call' = [NoCall EXCEPT !.op = "reattach"]
            ELSE /\ call' = [NoCall EXCEPT !.op = "init_config"]
                 /\ UNCHANGED <<tableExists, checkMax, triggers,
                                sync2gm_Changes, seq, remote>>
  /\ OperatorFrame

\* A writer other than the service's triggers (a mis-wired trigger)
\* inserts a row: the table's CHECK constraint decides.
ForeignInsert ==
  /\ Len(sync2gm_Changes) < MaxChanges
  /\ tableExists
  /\ \E changeType \in (0 - 1)..(Len(action_pairs) + 1), localId \in LocalIds :
       /\ create_service_table_Check(changeType, checkMax)
       /\ sync2gm_Changes' = Append(sync2gm_Changes,
            [changeId |-> seq + 1, changeType |-> changeType, localId |-> localId])
       /\ seq' = seq + 1
       /\ remote' = Append(remote, "a")
       /\ issued' = issued \cup {seq + 1}
  /\ UNCHANGED <<schemaVars, dbLocked, fsVars, idTables, pc, running, localVars,
                 envVars, downs, killed, ghostVars>>

\* Before init_config: no configuration directory, a watched database
\* without the service's objects, the service not started.
SchemaInit ==
  /\ sync2gm_Changes = <<>>
  /\ seq = 0
  /\ remote = <<>>
  /\ dbLocked = FALSE
  /\ file = NoFile
  /\ tmp = NoFile
  /\ bak = NoFile
  /\ idTables = {}
  /\ pc = "stopped"
  /\ running = FALSE
  /\ read_new_changeid = TRUE
  /\ last_change_id = 0
  /\ changes = <<>>
  /\ change = NoRow
  /\ raised = FALSE
  /\ exists = FALSE
  /\ renamed = FALSE
  /\ gmidConnBound \in BOOLEAN
  /\ tracebackBound \in BOOLEAN
  /\ downs = 0
  /\ killed = NoKill
  /\ invoked = {}
  /\ applied = {}
  /\ runInvoked = {}
  /\ runWriteFailed = FALSE
  /\ cf = NoCf
  /\ owing = {}
  /\ expected = [k \in ItemTypes |-> [l \in LocalIds |-> "never"]]
  /\ frontier = [id |-> 0, tables |-> {}, times |-> 0]
  /\ clean = TRUE
  /\ lastRead = 0
  /\ stopRow = 0
  /\ tableExists = FALSE
  /\ checkMax = 0
  /\ triggers = {}
  /\ createTablesBound \in BOOLEAN
  /\ dropTablesBound \in BOOLEAN
  /\ call = NoCall
  /\ calls = 0
  /\ issued = {}

\* The poll loop under the scheduling the claim C1 grants it: the thread
\* keeps running, a stopped process is restarted, the database lock is
\* released and the select then succeeds, a remote call that is retried
\* succeeds, no file operation, id map write or select fails for another
\* reason, and the process is not killed.
OtherFailure ==
  \/ SelectError \/ UpdateStep(FALSE)
  \/ AwOpenStep(FALSE) \/ AwWriteStep(FALSE) \/ AwBackupStep(FALSE)
  \/ AwRenameStep(FALSE) \/ AwRemoveStep(FALSE)
NoOtherFailure == ~OtherFailure /\ ~Kill
LiveNext == Next /\ NoOtherFailure
LiveSpec ==
  /\ Init
  /\ [][LiveNext]_vars
  /\ WF_vars(PollStep /\ NoOtherFailure)
  /\ WF_vars(Restart)
  /\ WF_vars(dbLocked /\ LockDb)
  /\ SF_vars(SelectOk)
  /\ SF_vars(PushOutcome("returns"))

\* The service and the operator's calls, with no I/O failure in the poll
\* loop other than the select on a database without the table.
SchemaNext ==
  \/ InitConfig \/ Attach \/ Detach \/ Reattach
  \/ TriggerInsert \/ ForeignInsert
  \/ Restart \/ Stop
  \/ (PollStep /\ ~OtherFailure)
  \/ (SelectError /\ ~tableExists)

SchemaSpec == SchemaInit /\ [][SchemaNext]_vars

\* The poll loop after stop(): the thread keeps being scheduled, no file
\* operation, id map write or select fails, and a select that finds the
\* lock free again and again succeeds; the other connection is not required
\* ever to release the lock of the watched database.
StopSpec ==
  /\ Init
  /\ [][LiveNext]_vars
  /\ WF_vars(PollStep /\ NoOtherFailure)
  /\ SF_vars(SelectOk)

\* ------------------------------------------------------------------ claims

\* Both free names of run() resolve: no dispatch raises NameError.
NamesResolve == gmidConnBound /\ tracebackBound

\* C1: every change row committed to sync2gm_Changes eventually has a
\* handler invocation completed that did not raise CallFailure (stated for
\* the processes in which the free names of run() resolve).
C1_EveryChangeEventuallyApplied ==
  NamesResolve => \A i \in 1..MaxChanges : (seq >= i) ~> (i \in applied)

\* C2: after push_changes raised CallFailure for a row, and until that row
\* is dispatched again, the cursor file is what it was before the row's
\* dispatch and the only row the loop dispatches is that row.
C2_CallFailureHaltsBatch ==
  (cf.row # 0 /\ pc \notin AwPcs) =>
     /\ file = cf.file
     /\ pc = "push" => change.changeId = cf.row

\* C3: every change row at or below the value in the cursor file has had
\* its handler invoked, and the id map shows its create/delete result.
C3_CursorCoversBookkeeping ==
  NamesResolve =>
    \A i \in 1..seq :
      (Readable(file) /\ i <= CursorValue) => (i \in invoked /\ i \notin owing)

\* C4: the cursor file never holds a value at or above the id of a change
\* row (above the cursor of the first startup, 0) whose handler was never
\* invoked.
C4_NoRowSkippedUndispatched ==
  \A i \in 1..seq : (Readable(file) /\ i <= CursorValue) => i \in invoked

C6_CursorReadsMonotone ==
  (pc = "top" /\ running /\ read_new_changeid) =>
     (Readable(file) /\ int(file.text) >= lastRead)

\* C7: for every key, a lookup returns the gm id of the last create the
\* dispatcher processed for it, and finds nothing after a processed delete.
C7_MappingCurrent ==
  \A k \in ItemTypes, l \in LocalIds :
    /\ expected[k][l] \in GmIds => GmIdRows(idTables, l, k) = {expected[k][l]}
    /\ expected[k][l] = "unmapped" => Unmapped(idTables, l, k)

\* C8: after a kill during atomic_write(filename, new) of an existing
\* file, filename exists and holds the old or the new value.
C8_KillLeavesOldOrNew ==
  (pc = "down" /\ killed.in \in AwPcs /\ killed.old.exists) =>
     file \in {killed.old, FileOf(str(killed.new))}

C10_StopSkipsRestOfBatch ==
  stopRow # 0 => \A d \in runInvoked : d <= stopRow

\* C11: when push_changes raises UnmappedId or another unexpected exception
\* for a row, the id map is not written for the row, the cursor write for
\* the row is started, and no exception leaves the try statement, so that
\* the loop goes on with the following rows.
C11_HandlerErrorSkipsRow ==
  [][PushOutcome("Exception") =>
       (pc' = "aw_open" /\ idTables' = idTables /\ ~raised')]_vars

\* C16: once stop() has been called, the poll thread eventually ends,
\* whatever the other connections to the watched database do.
C16_StopReachesStopped == (~running /\ Alive) ~> ~Alive

\* atomic_write returns False to run().
AwReturnsFalse ==
  \/ AwOpenStep(FALSE) \/ AwWriteStep(FALSE) \/ AwBackupStep(FALSE)
  \/ AwRemoveStep(FALSE) \/ (AwRemoveStep(TRUE) /\ ~renamed)

\* C17: when atomic_write returns False for a row, the cursor file still
\* exists and holds the integer it held before the call, and the loop goes
\* on with the batch.
C17_FailedWriteKeepsCursor ==
  [][(AwReturnsFalse /\ OldFile.exists) =>
       (/\ Readable(file')
        /\ file' = OldFile
        /\ ~raised => pc' = "for")]_vars

\* C18: while the database is locked the select is only retried: nothing
\* is dispatched and cursor, cursor file and id map stay as they are; the
\* loop leaves the select for a batch only when the select succeeded, with
\* the rows above the cursor; another error ends run() with the cursor
\* file and the id map untouched and nothing dispatched.
C18_SelectErrorPolicy ==
  [][pc = "select" =>
       /\ dbLocked =>
            /\ pc' \in {"select", "crashed", "down"}
            /\ UNCHANGED <<fsVars, idTables, invoked>>
            /\ pc' = "select" => UNCHANGED <<last_change_id, changes>>
       /\ pc' = "crashed" => UNCHANGED <<fsVars, idTables, invoked>>
       /\ pc' \in {"for", "sleep"} =>
            /\ ~dbLocked
            /\ UNCHANGED <<fsVars, idTables, invoked, last_change_id>>
            /\ pc' = "for" => changes' = SelectChanges(last_change_id)]_vars

\* The select is being retried on a locked database while rows wait.
C18_Witness ==
  /\ pc = "select" /\ dbLocked
  /\ SelectChanges(last_change_id) # <<>>

C20_PollLoopKeepsLog ==
  [][sync2gm_Changes' # sync2gm_Changes =>
       /\ Len(sync2gm_Changes') = Len(sync2gm_Changes) + 1
       /\ SubSeq(sync2gm_Changes', 1, Len(sync2gm_Changes)) = sync2gm_Changes
       /\ UNCHANGED <<pc, fsVars, idTables, localVars>>]_vars

\* The loop has dispatched the whole log and written the cursor, and the
\* log still holds every row.
C20_Witness ==
  /\ pc = "sleep" /\ Len(sync2gm_Changes) = MaxChanges
  /\ file = FileOf(str(MaxChanges))

\* The watched database held none of the service's objects before the
\* recorded call.
CleanBefore == ~call.before.table /\ call.before.triggers = {}

\* C12: attach on a database without the service's objects either returns
\* True, and the table and one trigger per action pair exist, or returns
\* False, and neither the table nor any trigger exists.
C12_AttachAllOrNothing ==
  (call.op = "attach" /\ CleanBefore) =>
     IF call.success
       THEN tableExists /\ triggers = AllTriggers /\ checkMax = Len(action_pairs)
       ELSE ~tableExists /\ triggers = {}

\* C13: attach followed by detach leaves the tables and triggers that
\* were there before attach, and detach on a database without the
\* service's objects returns True and changes nothing (no error of sqlite3's
\* own occurring in detach).
C13_AttachDetachRoundTrip ==
  (call.op = "detach" /\ ~call.fault /\ CleanBefore) =>
     /\ Schema(Db) = call.before
     /\ ~call.round => call.success

\* C14: with N action pairs attached, every row of the change log has a
\* change type in 0..N-1, an index into the handler vector.
C14_ChangeTypeInRange ==
  (tableExists /\ triggers = AllTriggers) =>
  \A i \in 1..Len(sync2gm_Changes) :
     /\ 0 <= sync2gm_Changes[i].changeType
     /\ sync2gm_Changes[i].changeType <= Len(action_pairs) - 1
     /\ sync2gm_Changes[i].changeType + 1 \in DOMAIN handlers

\* C15: a row a trigger inserts into the change log gets a changeId that
\* no row had before and that is above the value in the cursor file.
C15_ChangeIdsNeverReused ==
  [][TriggerInsert =>
       LET r == sync2gm_Changes'[Len(sync2gm_Changes')]
       IN /\ r.changeId \notin issued
          /\ Readable(file) => r.changeId > CursorValue]_vars

====
